---- MODULE Spec2Model ----
(***************************************************************************)
(* Model of scripts/export_games_to_csv.py: the value flatteners, the      *)
(* record projector, the field-set resolver, the source loader and the     *)
(* export driver.                                                          *)
(*                                                                         *)
(* Python values are tagged records [tag, val]; text is a sequence of      *)
(* one-character strings, so that str(), "; ".join and split are computed  *)
(* character by character.  A dict read only through get / in / [] is a    *)
(* TLA+ function; a dict whose insertion order is read (flatten_dict) is a *)
(* sequence of <<key, value>> pairs.                                       *)
(***************************************************************************)
EXTENDS Integers, Sequences, FiniteSets, TLC

VARIABLES
    pc,              \* position of main() / export_to_csv()
    fs,              \* the games directory: [exists, files: name -> content]
    yaml_files,      \* files load_games_from_yaml_files has still to read
    all_games,       \* the records loaded so far (games_data once returned)
    field_names,     \* the resolved Column List
    processed_games, \* the Projected Rows
    csvfile,         \* the output file: [exists, header, rows, closed]
    stdout,          \* the messages printed so far
    exit_status,     \* <<>> while running, <<n>> after exit with status n
    fn_op,           \* the pure function applied last ("idle" when none)
    fn_in,           \* its argument
    fn_out           \* its result

vars == <<pc, fs, yaml_files, all_games, field_names, processed_games,
          csvfile, stdout, exit_status, fn_op, fn_in, fn_out>>

pipeline_vars == <<pc, fs, yaml_files, all_games, field_names,
                   processed_games, csvfile, stdout, exit_status>>

fn_vars == <<fn_op, fn_in, fn_out>>

----------------------------------------------------------------------------
(* Bounds of the model.                                                    *)

MaxStrLen == 2      \* longest string item of a flattened list
MaxItems == 2       \* longest list / dict handed to the flatteners
MaxGames == 2       \* longest record list handed to get_all_field_names
MaxFiles == 2       \* most *.yaml files in the games directory
MaxPerFile == 2     \* most records in one file

----------------------------------------------------------------------------
(* Python values.                                                          *)

None == [tag |-> "none", val |-> 0]
Str(s) == [tag |-> "str", val |-> s]
Num(n) == [tag |-> "int", val |-> n]
List(l) == [tag |-> "list", val |-> l]
Map(m) == [tag |-> "map", val |-> m]
Raise == [tag |-> "raise", val |-> "TypeError"]

EmptyStr == Str(<<>>)
EmptyList == List(<<>>)
EmptyMap == Map(<<>>)

Range(s) == {s[i] : i \in DOMAIN s}

\* bool(v): None, "", 0, [] and {} are false.
Truthy(v) ==
    CASE v.tag = "none" -> FALSE
      [] v.tag = "str"  -> Len(v.val) > 0
      [] v.tag = "int"  -> v.val # 0
      [] v.tag = "list" -> Len(v.val) > 0
      [] v.tag = "map"  -> DOMAIN v.val # {}
      [] v.tag = "dict" -> Len(v.val) > 0

Digit(d) == <<"0", "1", "2", "3", "4", "5", "6", "7", "8", "9">>[d + 1]

RECURSIVE IntToText(_)
IntToText(n) ==
    IF n < 10 THEN <<Digit(n)>> ELSE IntToText(n \div 10) \o <<Digit(n % 10)>>

\* str(v) of a scalar: the text of a string is itself, of None is "None",
\* of a non-negative integer its decimal digits.
str(v) ==
    CASE v.tag = "str"  -> v.val
      [] v.tag = "none" -> <<"N", "o", "n", "e">>
      [] v.tag = "int"  -> IntToText(v.val)

\* iter(v): a list yields its items, a string its characters; an integer is
\* not iterable (TypeError).
Iterable(v) == v.tag \in {"list", "str"}

Iter(v) ==
    CASE v.tag = "list" -> v.val
      [] v.tag = "str"  -> [i \in 1..Len(v.val) |-> Str(<<v.val[i]>>)]

Sep == <<";", " ">>

\* sep.join(parts)
RECURSIVE Join(_, _)
Join(parts, sep) ==
    IF Len(parts) = 0 THEN <<>>
    ELSE IF Len(parts) = 1 THEN parts[1]
    ELSE parts[1] \o sep \o Join(Tail(parts), sep)

\* The(S) is the element of a one-element set.  The({e : x \in {v}}) is
\* LET x == v IN e, with v evaluated once however often e uses x.
The(S) == CHOOSE r \in S : TRUE

\* dict.get(key, default)
Get(d, key, default) == IF key \in DOMAIN d THEN d[key] ELSE default

----------------------------------------------------------------------------
(* Value Flattener.                                                        *)

flatten_list_bare_semicolon(items) ==
    IF ~Truthy(items) THEN EmptyStr
    ELSE IF ~Iterable(items) THEN Raise
    ELSE Str(Join([i \in 1..Len(Iter(items)) |-> str(Iter(items)[i])], <<";">>))

flatten_list(items) ==
    IF ~Truthy(items) THEN EmptyStr
    ELSE IF ~Iterable(items) THEN Raise
    ELSE Str(Join([i \in 1..Len(Iter(items)) |-> str(Iter(items)[i])], Sep))

\* d is [tag |-> "dict", val |-> <<<<k1, v1>>, ...>>] in insertion order, or
\* None.
flatten_dict(d) ==
    IF ~Truthy(d) THEN EmptyStr
    ELSE Str(Join([i \in 1..Len(d.val) |->
                      str(d.val[i][1]) \o <<"=">> \o str(d.val[i][2])], Sep))

----------------------------------------------------------------------------
(* Record Projector.                                                       *)

Platforms == <<"youtube", "vimeo", "moddb", "indiedb">>

VideoColumn(platform) == "video_" \o platform

\* video_data is None or a mapping (a function from platform names to
\* scalars); a non-zero integer makes `platform in video_data` raise.
extract_video_info(video_data) ==
    IF ~Truthy(video_data) THEN <<>>
    ELSE IF video_data.tag = "int" THEN Raise
    ELSE [c \in {VideoColumn(Platforms[i]) : i \in DOMAIN Platforms} |->
            LET platform == CHOOSE p \in Range(Platforms) : VideoColumn(p) = c
            IN  IF platform \in DOMAIN video_data.val
                THEN Str(str(video_data.val[platform]))
                ELSE EmptyStr]

\* The "basic fields", in the order of the assignments.
ScalarFields ==
    <<"name", "type", "status", "development", "content", "repo", "url",
      "feed", "info", "added", "updated">>

\* The "list fields", in the order of the assignments.
ListFields ==
    <<"originals", "langs", "frameworks", "licenses", "images", "multiplayer">>

\* dict.update(other)
Update(d, other) ==
    [k \in DOMAIN d \cup DOMAIN other |->
        IF k \in DOMAIN other THEN other[k] ELSE d[k]]

\* game is a function from the field names present to their values.  The
\* call raises when a flatten_list or extract_video_info call does.
process_game_data(game) ==
    The({IF \E k \in Range(ListFields) : lists[k] = Raise THEN Raise
         ELSE IF video_info = Raise THEN Raise
         ELSE The({Update(processed, video_info) :
                      processed \in {Update(basic, lists)}}) :
            basic \in {[k \in Range(ScalarFields) |->
                           Get(game, k, EmptyStr)]},
            lists \in {[k \in Range(ListFields) |->
                           flatten_list(Get(game, k, EmptyList))]},
            video_info \in {extract_video_info(Get(game, "video", EmptyMap))}})

----------------------------------------------------------------------------
(* Field-Set Resolver.                                                     *)

ordered_fields ==
    <<"name", "type", "status", "development", "content",
      "originals", "repo", "url", "feed", "info",
      "langs", "frameworks", "licenses", "multiplayer",
      "images", "video_youtube", "video_vimeo", "video_moddb", "video_indiedb",
      "added", "updated">>

\* Every name the model uses, in ascending code-point order: the order
\* sorted() puts strings in.
LexOrder ==
    <<"added", "content", "development", "feed", "frameworks", "homepage",
      "images", "info", "langs", "licenses", "multiplayer", "name",
      "originals", "repo", "status", "type", "updated", "url", "video",
      "video_indiedb", "video_moddb", "video_twitch", "video_vimeo",
      "video_youtube">>

LexRank(name) == CHOOSE i \in DOMAIN LexOrder : LexOrder[i] = name

\* sorted(S) of a set of names
sorted(S) == The({SelectSeq(LexOrder, LAMBDA n : n \in T) : T \in {S}})

get_all_field_names_first_row_keys(games_data) ==
    The({IF \E i \in DOMAIN rows : rows[i] = Raise THEN Raise
         ELSE IF Len(rows) = 0 THEN <<>>
         ELSE SelectSeq(ordered_fields, LAMBDA n : n \in DOMAIN rows[1]) :
            rows \in {[i \in DOMAIN games_data |->
                          process_game_data(games_data[i])]}})

get_all_field_names_no_difference(games_data) ==
    The({IF \E i \in DOMAIN rows : rows[i] = Raise THEN Raise
         ELSE LET field_names_set == UNION {DOMAIN rows[i] : i \in DOMAIN rows}
              IN  ordered_fields \o sorted(field_names_set) :
            rows \in {[i \in DOMAIN games_data |->
                          process_game_data(games_data[i])]}})

\* rows[i] is process_game_data(game) of the i-th game; the loop raises
\* when one of the calls does.
get_all_field_names(games_data) ==
    The({IF \E i \in DOMAIN rows : rows[i] = Raise THEN Raise
         ELSE LET field_names_set == UNION {DOMAIN rows[i] : i \in DOMAIN rows}
                  additional_fields ==
                      sorted(field_names_set \ Range(ordered_fields))
              IN  ordered_fields \o additional_fields :
            rows \in {[i \in DOMAIN games_data |->
                          process_game_data(games_data[i])]}})

----------------------------------------------------------------------------
(* Inputs of the pure functions.                                           *)

Alphabet == {"a", ";", " "}

Texts(n) == UNION {[1..k -> Alphabet] : k \in 0..n}

SeqsUpTo(S, n) == UNION {[1..k -> S] : k \in 0..n}

\* The scalars a list item may be: None, a number, any short string.
ItemScalars == {None, Num(7)} \cup {Str(t) : t \in Texts(MaxStrLen)}

ListInputs == {None} \cup {List(l) : l \in SeqsUpTo(ItemScalars, MaxItems)}

Dict(pairs) == [tag |-> "dict", val |-> pairs]

DictKeys == {Str(<<"a">>), Str(<<"b">>)}

DictValues == {None, Num(7), Str(<<"a">>)}

\* Insertion-ordered dicts: sequences of pairs with distinct keys.
DictInputs ==
    {None} \cup
    {Dict(l) : l \in {q \in SeqsUpTo(DictKeys \X DictValues, MaxItems) :
                         \A i, j \in DOMAIN q : q[i][1] = q[j][1] => i = j}}

\* The values a record gives its fields.  Num(5) in a list field is a
\* value of an undocumented shape (a scalar where a sequence is expected).
NameValues == {None, EmptyStr, Str(<<"a">>), Num(0), Num(12)}

LangsValues ==
    {None, EmptyList, List(<<Str(<<"a">>)>>),
     List(<<Str(<<"a">>), Num(7)>>), Num(5)}

VideoValues ==
    {None} \cup
    {Map(m) : m \in UNION {[S -> {Str(<<"a">>), Num(12)}] :
                              S \in SUBSET {"youtube", "indiedb", "twitch"}}}

HomepageValues == {Str(<<"a">>)}

\* A field that is absent, or present with one of `values`.
Opt(field, values) == {<<>>} \cup {[k \in {field} |-> v] : v \in values}

Records ==
    {Update(Update(Update(a, b), c), d) :
        a \in Opt("name", NameValues), b \in Opt("langs", LangsValues),
        c \in Opt("video", VideoValues), d \in Opt("homepage", HomepageValues)}

\* The records the files of the games directory hold: one without a video
\* field and one with a video mapping, both of the documented shapes, and
\* one of an undocumented shape.
DocumentedSamples ==
    {[name |-> Num(12), langs |-> List(<<Str(<<"a">>), Num(7)>>)],
     [name |-> None, homepage |-> Str(<<"a">>),
      video |-> Map([p \in {"youtube", "twitch"} |-> Str(<<"a">>)])]}

UndocumentedSample == [langs |-> Num(5)]

SampleRecords == DocumentedSamples \cup {UndocumentedSample}

----------------------------------------------------------------------------
(* The pure functions applied to every input: specification FnSpec.        *)

Off == "off"

\* The output file before open() creates it.
NoFile == [exists |-> FALSE, header |-> <<>>, rows |-> <<>>, closed |-> FALSE]

\* The games directory when it does not exist.
Missing == [exists |-> FALSE, files |-> <<>>]

Dir(files) == [exists |-> TRUE, files |-> files]

\* exit_status while the process runs; <<n>> once it exited with status n.
Running == <<>>

PipelineOff ==
    /\ pc = Off
    /\ fs = Missing
    /\ yaml_files = <<>>
    /\ all_games = <<>>
    /\ field_names = <<>>
    /\ processed_games = <<>>
    /\ csvfile = NoFile
    /\ stdout = <<>>
    /\ exit_status = Running

FnIdle ==
    /\ fn_op = "idle"
    /\ fn_in = None
    /\ fn_out = None

FnInit == FnIdle /\ PipelineOff

Applied(op, arg, result) ==
    /\ fn_op' = op
    /\ fn_in' = arg
    /\ fn_out' = result
    /\ UNCHANGED pipeline_vars

CallFlattenList ==
    /\ fn_op = "idle"
    /\ \E items \in ListInputs :
          Applied("flatten_list", items, flatten_list(items))

CallFlattenDict ==
    /\ fn_op = "idle"
    /\ \E d \in DictInputs : Applied("flatten_dict", d, flatten_dict(d))

CallExtractVideoInfo ==
    /\ fn_op = "idle"
    /\ \E v \in VideoValues :
          Applied("extract_video_info", v, extract_video_info(v))

CallProcessGameData ==
    /\ fn_op = "idle"
    /\ \E game \in Records :
          Applied("process_game_data", game, process_game_data(game))

CallGetAllFieldNames ==
    /\ fn_op = "idle"
    /\ \E games \in SeqsUpTo(SampleRecords \cup {<<>>}, MaxGames) :
          Applied("get_all_field_names", games, get_all_field_names(games))

FnReturn ==
    /\ fn_op # "idle"
    /\ fn_op' = "idle"
    /\ fn_in' = None
    /\ fn_out' = None
    /\ UNCHANGED pipeline_vars

FnNext ==
    \/ CallFlattenList
    \/ CallFlattenDict
    \/ CallExtractVideoInfo
    \/ CallProcessGameData
    \/ CallGetAllFieldNames
    \/ FnReturn

FnSpec == FnInit /\ [][FnNext]_vars

----------------------------------------------------------------------------
(* The games directory.                                                    *)

\* What yaml.safe_load makes of a file: a failure, None for an empty
\* document, or the list of its records (any list of documented records,
\* or the one record of an undocumented shape).
YamlError == [tag |-> "raise", val |-> "YAMLError"]

FileContents ==
    {YamlError, None, List(<<UndocumentedSample>>)} \cup
    {List(l) : l \in SeqsUpTo(DocumentedSamples, MaxPerFile)}

\* File names are numbered in their lexical order.
Directories ==
    {Missing} \cup
    {Dir(files) : files \in UNION {[1..n -> FileContents] : n \in 0..MaxFiles}}

Min(S) == CHOOSE x \in S : \A y \in S : x <= y

Max(S) == CHOOSE x \in S : \A y \in S : x >= y

RECURSIVE sorted_paths_descending(_)
sorted_paths_descending(S) ==
    IF S = {} THEN <<>>
    ELSE <<Max(S)>> \o sorted_paths_descending(S \ {Max(S)})

\* sorted(games_dir.glob("*.yaml"))
RECURSIVE sorted_paths(_)
sorted_paths(S) ==
    IF S = {} THEN <<>> ELSE <<Min(S)>> \o sorted_paths(S \ {Min(S)})

----------------------------------------------------------------------------
(* The tabular writer (csv.DictWriter with restval "", extrasaction        *)
(* "raise").                                                               *)

\* The text the writer puts in a cell: nothing for None, a string as it
\* is, str() of anything else.
csv_cell(v) == IF v = None THEN <<>> ELSE str(v)

\* DictWriter._dict_to_list: the row has a key outside fieldnames
wrong_fields(rowdict, fieldnames) == DOMAIN rowdict \ Range(fieldnames)

\* One written row: a cell per fieldname, in order, "" for a missing key.
dict_to_list(rowdict, fieldnames) ==
    [i \in DOMAIN fieldnames |-> csv_cell(Get(rowdict, fieldnames[i], EmptyStr))]

\* Rows before the first one with a wrong field are written.
Writable(rows, fieldnames) ==
    IF \E i \in DOMAIN rows : wrong_fields(rows[i], fieldnames) # {}
    THEN Min({i \in DOMAIN rows : wrong_fields(rows[i], fieldnames) # {}}) - 1
    ELSE Len(rows)

----------------------------------------------------------------------------
(* Source Loader and Export Driver: specification Spec.                    *)

Init ==
    /\ pc = "Locate"
    /\ fs \in Directories
    /\ yaml_files = <<>>
    /\ all_games = <<>>
    /\ field_names = <<>>
    /\ processed_games = <<>>
    /\ csvfile = NoFile
    /\ stdout = <<>>
    /\ exit_status = Running
    /\ FnIdle

Exit(status) ==
    /\ pc' = "Exit"
    /\ exit_status' = <<status>>

Locate_opens_output ==
    /\ pc = "Locate"
    /\ csvfile' = [exists |-> TRUE, header |-> <<>>, rows |-> <<>>,
                   closed |-> FALSE]
    /\ IF ~fs.exists
       THEN /\ stdout' = Append(stdout, <<"Games directory not found">>)
            /\ Exit(1)
            /\ UNCHANGED yaml_files
       ELSE /\ stdout' = Append(stdout, <<"Loading games from YAML files...">>)
            /\ yaml_files' = sorted_paths(DOMAIN fs.files)
            /\ pc' = "Load"
            /\ UNCHANGED exit_status
    /\ all_games' = <<>>
    /\ UNCHANGED <<fs, field_names, processed_games, fn_vars>>

\* main, up to the call of load_games_from_yaml_files and the listing of
\* the directory.
Locate ==
    /\ pc = "Locate"
    /\ IF ~fs.exists
       THEN /\ stdout' = Append(stdout, <<"Games directory not found">>)
            /\ Exit(1)
            /\ UNCHANGED yaml_files
       ELSE /\ stdout' = Append(stdout, <<"Loading games from YAML files...">>)
            /\ yaml_files' = sorted_paths(DOMAIN fs.files)
            /\ pc' = "Load"
            /\ UNCHANGED exit_status
    /\ all_games' = <<>>
    /\ UNCHANGED <<fs, field_names, processed_games, csvfile, fn_vars>>

LoadFile_abort_on_error ==
    /\ pc = "Load"
    /\ yaml_files # <<>>
    /\ LET yaml_file == Head(yaml_files)
           games == fs.files[yaml_file]
       IN  IF games.tag = "raise"
           THEN /\ stdout' = Append(stdout, <<"Processing", yaml_file>>)
                /\ Exit(1)
                /\ UNCHANGED all_games
           ELSE /\ stdout' = Append(stdout, <<"Processing", yaml_file>>)
                /\ all_games' = IF Truthy(games)
                                THEN all_games \o games.val
                                ELSE all_games
                /\ UNCHANGED <<pc, exit_status>>
    /\ yaml_files' = Tail(yaml_files)
    /\ UNCHANGED <<fs, field_names, processed_games, csvfile, fn_vars>>

\* One iteration of the loop over yaml_files.
LoadFile ==
    /\ pc = "Load"
    /\ yaml_files # <<>>
    /\ LET yaml_file == Head(yaml_files)
           games == fs.files[yaml_file]
       IN  IF games.tag = "raise"
           THEN /\ stdout' = stdout \o <<<<"Processing", yaml_file>>,
                                         <<"Error processing", yaml_file>>>>
                /\ UNCHANGED all_games
           ELSE /\ stdout' = Append(stdout, <<"Processing", yaml_file>>)
                /\ all_games' = IF Truthy(games)
                                THEN all_games \o games.val
                                ELSE all_games
    /\ yaml_files' = Tail(yaml_files)
    /\ UNCHANGED <<pc, fs, field_names, processed_games, csvfile,
                   exit_status, fn_vars>>

LoadDone_no_empty_check ==
    /\ pc = "Load"
    /\ yaml_files = <<>>
    /\ stdout' = stdout \o <<<<"Loaded", Len(all_games)>>,
                             <<"Exporting to CSV...">>>>
    /\ pc' = "Resolve"
    /\ UNCHANGED <<fs, yaml_files, all_games, field_names, processed_games,
                   csvfile, exit_status, fn_vars>>

\* The loader returns; main checks that something was loaded and calls
\* export_to_csv.
LoadDone ==
    /\ pc = "Load"
    /\ yaml_files = <<>>
    /\ IF ~(Len(all_games) > 0)
       THEN /\ stdout' = Append(stdout, <<"No games found in YAML files.">>)
            /\ Exit(1)
       ELSE /\ stdout' = stdout \o <<<<"Loaded", Len(all_games)>>,
                                     <<"Exporting to CSV...">>>>
            /\ pc' = "Resolve"
            /\ UNCHANGED exit_status
    /\ UNCHANGED <<fs, yaml_files, all_games, field_names, processed_games,
                   csvfile, fn_vars>>

\* export_to_csv: its own guard, then get_all_field_names.  An exception
\* of the projection is not caught: the interpreter exits with status 1.
Resolve ==
    /\ pc = "Resolve"
    /\ IF ~(Len(all_games) > 0)
       THEN /\ stdout' = stdout \o <<<<"No games data to export.">>,
                                     <<"Export complete!">>>>
            /\ Exit(0)
            /\ UNCHANGED field_names
       ELSE \E result \in {get_all_field_names(all_games)} :
               IF result = Raise
               THEN /\ Exit(1)
                    /\ UNCHANGED <<stdout, field_names>>
               ELSE /\ field_names' = result
                    /\ pc' = "Project"
                    /\ UNCHANGED <<stdout, exit_status>>
    /\ UNCHANGED <<fs, yaml_files, all_games, processed_games, csvfile,
                   fn_vars>>

\* processed_games = [process_game_data(game) for game in games_data]
Project ==
    /\ pc = "Project"
    /\ \E rows \in {[i \in DOMAIN all_games |->
                        process_game_data(all_games[i])]} :
          IF \E i \in DOMAIN rows : rows[i] = Raise
          THEN /\ Exit(1)
               /\ UNCHANGED processed_games
          ELSE /\ processed_games' = rows
               /\ pc' = "WriteOpen"
               /\ UNCHANGED exit_status
    /\ UNCHANGED <<fs, yaml_files, all_games, field_names, csvfile, stdout,
                   fn_vars>>

\* open(output_file, 'w'): the file is created, or truncated, empty.
OpenOutput ==
    /\ pc = "WriteOpen"
    /\ csvfile' = [exists |-> TRUE, header |-> <<>>, rows |-> <<>>,
                   closed |-> FALSE]
    /\ pc' = "WriteHeader"
    /\ UNCHANGED <<fs, yaml_files, all_games, field_names, processed_games,
                   stdout, exit_status, fn_vars>>

\* writer.writeheader()
WriteHeader ==
    /\ pc = "WriteHeader"
    /\ csvfile' = [csvfile EXCEPT !.header = <<field_names>>]
    /\ pc' = "WriteRows"
    /\ UNCHANGED <<fs, yaml_files, all_games, field_names, processed_games,
                   stdout, exit_status, fn_vars>>

\* writer.writerows(processed_games) and the end of the with block, which
\* closes the file whether or not a row raised ValueError.
WriteRows ==
    /\ pc = "WriteRows"
    /\ \E n \in {Writable(processed_games, field_names)} :
           /\ csvfile' = [csvfile EXCEPT
                  !.rows = [i \in 1..n |->
                               dict_to_list(processed_games[i], field_names)],
                  !.closed = TRUE]
           /\ IF n < Len(processed_games)
              THEN Exit(1)
              ELSE pc' = "Report" /\ UNCHANGED exit_status
    /\ UNCHANGED <<fs, yaml_files, all_games, field_names, processed_games,
                   stdout, fn_vars>>

\* The summary of export_to_csv and the last line of main.
Report ==
    /\ pc = "Report"
    /\ stdout' = stdout \o <<<<"Exported", Len(processed_games)>>,
                             <<"Fields", field_names>>,
                             <<"Export complete!">>>>
    /\ Exit(0)
    /\ UNCHANGED <<fs, yaml_files, all_games, field_names, processed_games,
                   csvfile, fn_vars>>

Next ==
    \/ Locate
    \/ LoadFile
    \/ LoadDone
    \/ Resolve
    \/ Project
    \/ OpenOutput
    \/ WriteHeader
    \/ WriteRows
    \/ Report

Spec == Init /\ [][Next]_vars

\* The interpreter runs the script to its end: a step that can be taken is
\* taken.
FairSpec == Spec /\ WF_vars(Next)

----------------------------------------------------------------------------
(* Definitions the properties are stated with.                             *)

\* The 21 canonical column names in their fixed order.
CanonicalColumns ==
    <<"name", "type", "status", "development", "content", "originals",
      "repo", "url", "feed", "info", "langs", "frameworks", "licenses",
      "multiplayer", "images", "video_youtube", "video_vimeo", "video_moddb",
      "video_indiedb", "added", "updated">>

DirectScalarColumns ==
    {"name", "type", "status", "development", "content", "repo", "url",
     "feed", "info", "added", "updated"}

RecognizedPlatforms == {"youtube", "vimeo", "moddb", "indiedb"}

\* sep occurs in text
Contains(text, sep) ==
    \E i \in 1..(Len(text) - Len(sep) + 1) :
        SubSeq(text, i, i + Len(sep) - 1) = sep

\* text.split(sep): the pieces between the occurrences of sep, found left
\* to right.
RECURSIVE Split(_, _)
Split(text, sep) ==
    IF ~Contains(text, sep) THEN <<text>>
    ELSE LET i == CHOOSE k \in 1..(Len(text) - Len(sep) + 1) :
                     /\ SubSeq(text, k, k + Len(sep) - 1) = sep
                     /\ \A j \in 1..(k - 1) :
                            SubSeq(text, j, j + Len(sep) - 1) # sep
         IN  <<SubSeq(text, 1, i - 1)>>
                 \o Split(SubSeq(text, i + Len(sep), Len(text)), sep)

NoDuplicates(s) == \A i, j \in DOMAIN s : s[i] = s[j] => i = j

Returned(op) == fn_op = op /\ fn_out # Raise

----------------------------------------------------------------------------
(* Properties of the pure functions, checked under FnSpec.                 *)

\* C1: for any Record, process_game_data returns a Projected Row whose key
\* set is exactly the 21 canonical column names.
C1_RowKeysAreCanonical ==
    Returned("process_game_data") =>
        DOMAIN fn_out = Range(CanonicalColumns)

\* C2: every value of a Projected Row is a string, never null: a direct
\* scalar column is the empty string when the field is absent, null or
\* empty, and the text form of the scalar otherwise.
C2_RowValuesAreStrings ==
    Returned("process_game_data") =>
        /\ \A c \in DOMAIN fn_out : fn_out[c].tag = "str"
        /\ \A c \in DirectScalarColumns :
              fn_out[c] = IF c \notin DOMAIN fn_in \/ fn_in[c] = None
                          THEN EmptyStr
                          ELSE Str(str(fn_in[c]))

\* C3: whether the video field is absent or a mapping with any keys, the
\* Projected Row has all four video_<platform> columns, each the string
\* form of the platform's value when the key is present and the empty
\* string otherwise, and no other video column.
C3_VideoColumns ==
    Returned("process_game_data") =>
        /\ \A p \in RecognizedPlatforms :
              /\ VideoColumn(p) \in DOMAIN fn_out
              /\ fn_out[VideoColumn(p)] =
                    IF /\ "video" \in DOMAIN fn_in
                       /\ fn_in["video"].tag = "map"
                       /\ p \in DOMAIN fn_in["video"].val
                    THEN Str(str(fn_in["video"].val[p]))
                    ELSE EmptyStr
        /\ \A c \in DOMAIN fn_out :
              c \in DirectScalarColumns \cup Range(ListFields)
                  \cup {VideoColumn(p) : p \in RecognizedPlatforms}

\* C4: get_all_field_names returns a list without duplicates that begins
\* with the 21 canonical names in their fixed order, continues only with
\* names outside that prefix in strictly ascending lexical order, and holds
\* every key of every record's Projected Row.
C4_ColumnList ==
    Returned("get_all_field_names") =>
        LET n == Len(CanonicalColumns)
        IN  /\ NoDuplicates(fn_out)
            /\ Len(fn_out) >= n
            /\ SubSeq(fn_out, 1, n) = CanonicalColumns
            /\ \A i \in (n + 1)..Len(fn_out) :
                  /\ fn_out[i] \notin Range(CanonicalColumns)
                  /\ i > n + 1 => LexRank(fn_out[i - 1]) < LexRank(fn_out[i])
            /\ \A i \in DOMAIN fn_in :
                  DOMAIN process_game_data(fn_in[i]) \subseteq Range(fn_out)

\* C4 witness: the resolver ran on two records whose projections have
\* different key sets (one without the video columns).
C4_Witness ==
    /\ Returned("get_all_field_names")
    /\ Len(fn_in) = 2
    /\ DOMAIN process_game_data(fn_in[1]) # DOMAIN process_game_data(fn_in[2])
    /\ "video_youtube" \notin DOMAIN process_game_data(fn_in[1])

\* C9: flatten_list and flatten_dict return the empty string for an empty
\* or absent input and never fail on scalar items; for a non-empty list of
\* n scalars none of whose text contains "; ", splitting flatten_list's
\* result on "; " gives exactly the n text forms, in order.
C9_FlattenRoundTrip ==
    /\ fn_op = "flatten_list" =>
          /\ fn_out.tag = "str"
          /\ ~Truthy(fn_in) => fn_out = EmptyStr
          /\ ( /\ Truthy(fn_in)
               /\ \A i \in DOMAIN fn_in.val : ~Contains(str(fn_in.val[i]), Sep) )
             => Split(fn_out.val, Sep)
                    = [i \in DOMAIN fn_in.val |-> str(fn_in.val[i])]
    /\ fn_op = "flatten_dict" =>
          /\ fn_out.tag = "str"
          /\ ~Truthy(fn_in) => fn_out = EmptyStr

\* C9 witness: a two-item list with a number and a string ending in ';'
\* was joined.
C9_Witness ==
    /\ fn_op = "flatten_list"
    /\ fn_in = List(<<Str(<<"a", ";">>), Num(7)>>)
    /\ fn_out = Str(<<"a", ";", ";", " ", "7">>)

----------------------------------------------------------------------------
(* Properties of the loader and the driver, checked under Spec.            *)

NumFiles == Cardinality(DOMAIN fs.files)

\* The records of the files named 1..k that parse to a list, file after
\* file in ascending name order and in the order the file gives them.
RECURSIVE RecordsOfFiles(_)
RecordsOfFiles(k) ==
    IF k = 0 THEN <<>>
    ELSE RecordsOfFiles(k - 1)
            \o (IF fs.files[k].tag = "list" THEN fs.files[k].val ELSE <<>>)

\* How many files the loader has read.
FilesRead == IF pc = "Locate" THEN 0 ELSE NumFiles - Len(yaml_files)

Printed(message) == message \in Range(stdout)

\* The text the table shows for a record's name.
NameCell(game) ==
    IF "name" \notin DOMAIN game \/ game["name"] = None
    THEN <<>> ELSE str(game["name"])

ColumnIndex(name) == CHOOSE j \in DOMAIN field_names : field_names[j] = name

\* C5: the table has exactly one data row per loaded record, in load
\* order (files in ascending name order, records in file order); nothing is
\* reordered, dropped, merged or deduplicated.
C5_RowsInLoadOrder ==
    csvfile.closed =>
        LET loaded == RecordsOfFiles(NumFiles)
        IN  /\ Len(csvfile.rows) = Len(loaded)
            /\ \A i \in DOMAIN loaded :
                  /\ csvfile.rows[i][ColumnIndex("name")] = NameCell(loaded[i])
                  /\ ("video" \in DOMAIN loaded[i]) =
                        (csvfile.rows[i][ColumnIndex("video_youtube")] # <<>>)

\* C5 witness: two files of two records each were written as four rows,
\* the first file holding the same record twice.
C5_Witness ==
    /\ csvfile.closed
    /\ NumFiles = 2
    /\ fs.files[1].tag = "list" /\ Len(fs.files[1].val) = 2
    /\ fs.files[1].val[1] = fs.files[1].val[2]
    /\ fs.files[2].tag = "list" /\ Len(fs.files[2].val) = 2
    /\ fs.files[2].val[1] # fs.files[2].val[2]
    /\ Len(csvfile.rows) = 4
    /\ csvfile.rows[1] = csvfile.rows[2]
    /\ csvfile.rows[3] # csvfile.rows[4]

\* C6: a file that fails to parse is reported and skipped without ending
\* the run: it adds no record, the records of earlier files stay, every
\* later file is read, and the loader's result is the concatenation of the
\* records of exactly the files that parsed.
C6_FailedFileSkipped ==
    fs.exists =>
        /\ pc = "Load" => exit_status = Running
        /\ pc \notin {"Locate", "Load"} => FilesRead = NumFiles
        /\ pc # "Locate" => all_games = RecordsOfFiles(FilesRead)
        /\ \A f \in 1..FilesRead :
              /\ Printed(<<"Processing", f>>)
              /\ Printed(<<"Error processing", f>>) = (fs.files[f] = YamlError)

\* C6 witness: the first of two files failed to parse and the loader went
\* on to return the records of the second.
C6_Witness ==
    /\ pc = "Resolve"
    /\ NumFiles = 2
    /\ fs.files[1] = YamlError
    /\ fs.files[2].tag = "list"
    /\ all_games = fs.files[2].val
    /\ Len(all_games) = 2

\* C7: in a run that ends in a fatal condition (the directory is missing,
\* or no record is loaded), and in any run that exits with a non-zero
\* status, the output file is never created.
C7_NoOutputOnAbort ==
    (\/ ~fs.exists
     \/ RecordsOfFiles(NumFiles) = <<>>
     \/ exit_status = <<1>>) => ~csvfile.exists

\* C7 witness: a run over two files, none of which gave a record, has
\* exited with status 1.
C7_Witness ==
    /\ pc = "Exit"
    /\ exit_status = <<1>>
    /\ NumFiles = 2
    /\ fs.files[1] = YamlError
    /\ fs.files[2] = EmptyList
    /\ ~csvfile.exists

\* The phases of the driver, numbered in their order.
PhaseRank(p) ==
    CASE p = "Locate"  -> 1
      [] p = "Load"    -> 2
      [] p = "Resolve" -> 3
      [] p = "Project" -> 4
      [] p \in {"WriteOpen", "WriteHeader", "WriteRows"} -> 5
      [] p = "Report"  -> 6
      [] p = "Exit"    -> 7

\* The shapes the data model documents: a sequence field is absent, null
\* or a sequence, the video field absent, null or a mapping.
DocumentedShape(game) ==
    /\ \A k \in DOMAIN game \cap Range(ListFields) :
          game[k].tag \in {"none", "list"}
    /\ "video" \in DOMAIN game => game["video"].tag \in {"none", "map"}

\* C8 as claimed: the driver exits with a non-zero status if the directory
\* is missing or no record was loaded, and otherwise exits with status zero
\* after the table was written and reported.
C8_ExitZeroWheneverLoaded ==
    pc = "Exit" =>
        IF ~fs.exists \/ all_games = <<>>
        THEN exit_status = <<1>>
        ELSE /\ exit_status = <<0>>
             /\ csvfile.closed
             /\ Printed(<<"Exported", Len(all_games)>>)

\* C8 as amended: the driver is a linear state machine Locate, Load,
\* Resolve, Project, Write, Report that never returns to an earlier phase
\* and skips none before it exits; every run ends; it exits with a non-zero
\* status if the directory is missing or no record was loaded; otherwise,
\* if every loaded record has the documented shapes, it exits with status
\* zero, from Report, with the table written; a loaded record with a
\* non-zero number in a sequence field ends the run with a non-zero status
\* before the output file is opened.
C8_LinearDriver ==
    /\ [][/\ PhaseRank(pc') >= PhaseRank(pc)
          /\ pc' # "Exit" => PhaseRank(pc') <= PhaseRank(pc) + 1
          /\ exit_status' = <<0>> => pc = "Report"]_vars
    /\ [](pc = "Exit" =>
            IF ~fs.exists \/ RecordsOfFiles(NumFiles) = <<>>
            THEN exit_status = <<1>>
            ELSE IF \A i \in DOMAIN all_games : DocumentedShape(all_games[i])
            THEN /\ exit_status = <<0>>
                 /\ csvfile.closed
                 /\ Printed(<<"Exported", Len(all_games)>>)
            ELSE /\ exit_status = <<1>>
                 /\ ~csvfile.exists)
    /\ <>(pc = "Exit")

\* C8 witness: a run that loaded records, one file of two having failed to
\* parse, has reported and exited with status zero.
C8_Witness ==
    /\ pc = "Exit"
    /\ exit_status = <<0>>
    /\ Printed(<<"Error processing", 1>>)
    /\ Len(all_games) = 2
    /\ csvfile.closed
    /\ Printed(<<"Export complete!">>)

\* C10: every written data row has exactly one cell per column of the
\* Column List, in its order; a column whose key the Projected Row lacks is
\* an empty cell; a record with no video field is written with four empty
\* video cells; the write never fails on a key outside the Column List.
C10_RowsFollowColumnList ==
    /\ pc = "WriteRows" =>
          \A i \in DOMAIN processed_games :
              DOMAIN processed_games[i] \subseteq Range(field_names)
    /\ csvfile.closed =>
          /\ exit_status # <<1>>
          /\ csvfile.header = <<field_names>>
          /\ Len(csvfile.rows) = Len(all_games)
          /\ \A i \in DOMAIN csvfile.rows :
                /\ Len(csvfile.rows[i]) = Len(field_names)
                /\ \A j \in DOMAIN field_names :
                      csvfile.rows[i][j] =
                          IF field_names[j] \in DOMAIN processed_games[i]
                          THEN csv_cell(processed_games[i][field_names[j]])
                          ELSE <<>>
                /\ "video" \notin DOMAIN all_games[i] =>
                      \A p \in RecognizedPlatforms :
                          /\ VideoColumn(p) \in Range(field_names)
                          /\ csvfile.rows[i][ColumnIndex(VideoColumn(p))] = <<>>

\* C10 witness: a table was written whose first record has no video field
\* (its projection has no video key) and whose second has one.
C10_Witness ==
    /\ csvfile.closed
    /\ Len(csvfile.rows) >= 2
    /\ "video" \notin DOMAIN all_games[1]
    /\ "video_youtube" \notin DOMAIN processed_games[1]
    /\ "video_youtube" \in DOMAIN processed_games[2]
    /\ csvfile.rows[1][ColumnIndex("video_youtube")] = <<>>
    /\ csvfile.rows[2][ColumnIndex("video_youtube")] = <<"a">>

====
